---- MODULE Spec2Model ----
(***************************************************************************)
(* Model of the event-management backend: the Event schema with its        *)
(* pre-save hook and the three normalizers (database/event.model.ts), the  *)
(* Booking schema with its referential pre-save check, the similar-events  *)
(* query, and the GET /api/events/[slug] route handler.                    *)
(*                                                                         *)
(* JavaScript strings are modelled as sequences of one-character strings,  *)
(* so that the regular expressions and string methods of the source are    *)
(* computed character by character.                                        *)
(***************************************************************************)
EXTENDS Integers, Sequences, FiniteSets, TLC

(***************************************************************************)
(* Bounds of the model.                                                    *)
(***************************************************************************)
MaxTitleLen == 4
MaxSpaces == 1
MaxEvents == 2
MaxBookings == 2

(***************************************************************************)
(* JavaScript string primitives.                                           *)
(***************************************************************************)
UpperLetters == <<"A","B","C","D","E","F","G","H","I","J","K","L","M",
                  "N","O","P","Q","R","S","T","U","V","W","X","Y","Z">>
LowerLetters == <<"a","b","c","d","e","f","g","h","i","j","k","l","m",
                  "n","o","p","q","r","s","t","u","v","w","x","y","z">>
DigitChars == <<"0","1","2","3","4","5","6","7","8","9">>

Range(f) == { f[i] : i \in DOMAIN f }
UpperSet == Range(UpperLetters)
LowerSet == Range(LowerLetters)
DigitSet == Range(DigitChars)
SpaceSet == {" ", "\t", "\n"}

IsUpper(c) == c \in UpperSet
IsLower(c) == c \in LowerSet
IsDigit(c) == c \in DigitSet
\* \s of a JavaScript regular expression, and the characters trim() strips
IsSpace(c) == c \in SpaceSet

LowerOf == [c \in UpperSet |-> LowerLetters[CHOOSE i \in 1..26 : UpperLetters[i] = c]]
UpperOf == [c \in LowerSet |-> UpperLetters[CHOOSE i \in 1..26 : LowerLetters[i] = c]]
ValueOf == [c \in DigitSet |-> (CHOOSE i \in 1..10 : DigitChars[i] = c) - 1]
LowerChar(c) == IF IsUpper(c) THEN LowerOf[c] ELSE c
UpperChar(c) == IF IsLower(c) THEN UpperOf[c] ELSE c
DigitVal(c) == ValueOf[c]
DigitOf(n) == DigitChars[n + 1]

toLowerCase(s) == [i \in 1..Len(s) |-> LowerChar(s[i])]
toUpperCase(s) == [i \in 1..Len(s) |-> UpperChar(s[i])]

RECURSIVE trimStart(_)
trimStart(s) == IF s # <<>> /\ IsSpace(Head(s)) THEN trimStart(Tail(s)) ELSE s
RECURSIVE trimEnd(_)
trimEnd(s) ==
    IF s # <<>> /\ IsSpace(s[Len(s)]) THEN trimEnd(SubSeq(s, 1, Len(s) - 1)) ELSE s
trim(s) == trimEnd(trimStart(s))

(***************************************************************************)
(* generateSlug, one operator per step of the method chain.                *)
(***************************************************************************)
\* .replace(/[^a-z0-9\s-]/g, "")
SlugKeep(c) == IsLower(c) \/ IsDigit(c) \/ IsSpace(c) \/ c = "-"
removeSpecial(s) == SelectSeq(s, SlugKeep)

\* .replace(/\s+/g, "-")
RECURSIVE spacesToHyphen(_)
spacesToHyphen(s) ==
    IF s = <<>> THEN <<>>
    ELSE IF IsSpace(Head(s))
         THEN <<"-">> \o spacesToHyphen(trimStart(s))
         ELSE <<Head(s)>> \o spacesToHyphen(Tail(s))

\* .replace(/-+/g, "-")
RECURSIVE collapseHyphens(_)
collapseHyphens(s) ==
    IF s = <<>> THEN <<>>
    ELSE IF Head(s) = "-" /\ Len(s) > 1 /\ s[2] = "-"
         THEN collapseHyphens(Tail(s))
         ELSE <<Head(s)>> \o collapseHyphens(Tail(s))

\* .replace(/^-|-$/g, ""): one hyphen at the start, one at the end of the rest
stripEdgeHyphens(s) ==
    LET a == IF s # <<>> /\ Head(s) = "-" THEN Tail(s) ELSE s
    IN  IF a # <<>> /\ a[Len(a)] = "-" THEN SubSeq(a, 1, Len(a) - 1) ELSE a

\* generateSlug with the hyphen-run collapse left out
generateSlugNoCollapse(title) ==
    stripEdgeHyphens(spacesToHyphen(removeSpecial(trim(toLowerCase(title)))))

generateSlug(title) ==
    stripEdgeHyphens(
        collapseHyphens(spacesToHyphen(removeSpecial(trim(toLowerCase(title))))))

(***************************************************************************)
(* JavaScript values that may be undefined or NaN.                         *)
(***************************************************************************)
Undefined == [defined |-> FALSE, str |-> <<>>]
Str(s) == [defined |-> TRUE, str |-> s]
\* String(v), as a template literal or parseInt coerces its argument
String(v) == IF v.defined THEN v.str ELSE <<"u","n","d","e","f","i","n","e","d">>

NaN == [nan |-> TRUE, val |-> 0]
Num(n) == [nan |-> FALSE, val |-> n]
\* a comparison with NaN is false
NumLess(a, b) == ~a.nan /\ ~b.nan /\ a.val < b.val

RECURSIVE leadingDigits(_)
leadingDigits(s) ==
    IF s # <<>> /\ IsDigit(Head(s)) THEN <<Head(s)>> \o leadingDigits(Tail(s)) ELSE <<>>
RECURSIVE decimalValue(_)
decimalValue(d) ==
    IF d = <<>> THEN 0
    ELSE 10 * decimalValue(SubSeq(d, 1, Len(d) - 1)) + DigitVal(d[Len(d)])
\* parseInt(v): leading white space skipped, then the longest run of digits
parseInt(v) ==
    LET d == leadingDigits(trimStart(String(v)))
    IN  IF d = <<>> THEN NaN ELSE Num(decimalValue(d))

RECURSIVE decimalString(_)
decimalString(n) ==
    IF n < 10 THEN <<DigitOf(n)>> ELSE decimalString(n \div 10) \o <<DigitOf(n % 10)>>
\* n.toString() of a number that is NaN or a natural
numToString(n) == IF n.nan THEN <<"N","a","N">> ELSE decimalString(n.val)
RECURSIVE padStart(_, _, _)
padStart(s, n, c) == IF Len(s) < n THEN padStart(<<c>> \o s, n, c) ELSE s

(***************************************************************************)
(* normalizeTime.                                                          *)
(***************************************************************************)
NoMatch == [matched |-> FALSE, groups |-> <<>>]

\* the match of /^(\d{1,2}:\d{2})\s*(AM|PM)?$/i with n digits of hour
timeMatchWith(t, n) ==
    IF /\ Len(t) >= n + 3
       /\ \A i \in 1..n : IsDigit(t[i])
       /\ t[n + 1] = ":"
       /\ IsDigit(t[n + 2])
       /\ IsDigit(t[n + 3])
    THEN LET rest == trimStart(SubSeq(t, n + 4, Len(t)))
             g1   == Str(SubSeq(t, 1, n + 3))
         IN  IF rest = <<>>
             THEN [matched |-> TRUE, groups |-> <<Str(t), g1, Undefined>>]
             ELSE IF toUpperCase(rest) \in {<<"A","M">>, <<"P","M">>}
                  THEN [matched |-> TRUE, groups |-> <<Str(t), g1, Str(rest)>>]
                  ELSE NoMatch
    ELSE NoMatch

\* timeStr.match(timeRegex): the array of the whole match and the two groups
timeMatch(t) ==
    IF timeMatchWith(t, 2).matched THEN timeMatchWith(t, 2) ELSE timeMatchWith(t, 1)

\* match[i]; an index past the last group reads undefined
matchAt(m, i) == IF i + 1 <= Len(m.groups) THEN m.groups[i + 1] ELSE Undefined

Returned(s) == [ok |-> TRUE, val |-> s, err |-> ""]
Thrown(msg) == [ok |-> FALSE, val |-> <<>>, err |-> msg]

ErrTimeFormat == "Invalid time format, expected HH:MM with optional AM/PM"
ErrTimeRange == "Time must be between 00:00 and 23:59"
ErrDateFormat == "Invalid date format"

\* const period = match[4]?.toUpperCase()
periodOf(p) == IF p.defined THEN Str(toUpperCase(p.str)) ELSE Undefined

\* if (period) { if (period === "PM" && hours !== 12) hours += 12;
\*               if (period === "AM" && hours === 12) hours = 0; }
hoursAfterPM(hours, period) ==
    IF period.defined /\ period.str = <<"P","M">> /\ ~(~hours.nan /\ hours.val = 12)
    THEN (IF hours.nan THEN NaN ELSE Num(hours.val + 12))
    ELSE hours
hoursAfterAM(hours, period) ==
    IF period.defined /\ period.str = <<"A","M">> /\ ~hours.nan /\ hours.val = 12
    THEN Num(0)
    ELSE hours
convertHours(hours, period) == hoursAfterAM(hoursAfterPM(hours, period), period)

\* the range check and the returned string
timeChecked(hours, minutes) ==
    IF \/ NumLess(hours, Num(0))
       \/ NumLess(Num(23), hours)
       \/ NumLess(parseInt(minutes), Num(0))
       \/ NumLess(Num(59), parseInt(minutes))
    THEN Thrown(ErrTimeRange)
    ELSE Returned(padStart(numToString(hours), 2, "0") \o <<":">> \o String(minutes))

\* normalizeTime from the match on: hours = parseInt(match[1]), minutes = match[2],
\* period from match[4]
timeFromMatch(match) ==
    IF ~match.matched THEN Thrown(ErrTimeFormat)
    ELSE timeChecked(convertHours(parseInt(matchAt(match, 1)), periodOf(matchAt(match, 4))),
                     matchAt(match, 2))

normalizeTime(timeStr) == timeFromMatch(timeMatch(trim(timeStr)))

(***************************************************************************)
(* normalizeDate.  new Date(dateStr) is modelled for the ISO forms          *)
(* YYYY-MM-DD and YYYY-MM-DDTHH:MM:SSZ, which are read as UTC; any other   *)
(* string of the bounded inputs is one Date cannot parse.                  *)
(***************************************************************************)
InvalidDate == [valid |-> FALSE, y |-> 0, m |-> 0, d |-> 0]

AllDigits(s) == \A i \in 1..Len(s) : IsDigit(s[i])

IsoClock(s) ==
    /\ Len(s) = 10
    /\ s[1] = "T" /\ s[4] = ":" /\ s[7] = ":" /\ s[10] = "Z"
    /\ AllDigits(SubSeq(s, 2, 3)) /\ decimalValue(SubSeq(s, 2, 3)) <= 23
    /\ AllDigits(SubSeq(s, 5, 6)) /\ decimalValue(SubSeq(s, 5, 6)) <= 59
    /\ AllDigits(SubSeq(s, 8, 9)) /\ decimalValue(SubSeq(s, 8, 9)) <= 59

isLeapYear(y) == (y % 4 = 0 /\ y % 100 # 0) \/ y % 400 = 0
daysInMonth(y, m) ==
    IF m = 2 THEN (IF isLeapYear(y) THEN 29 ELSE 28)
    ELSE IF m \in {4, 6, 9, 11} THEN 30 ELSE 31

\* new Date(dateStr): the UTC calendar day of the parsed instant
parseDate(s) ==
    IF /\ Len(s) >= 10
       /\ AllDigits(SubSeq(s, 1, 4)) /\ s[5] = "-"
       /\ AllDigits(SubSeq(s, 6, 7)) /\ s[8] = "-"
       /\ AllDigits(SubSeq(s, 9, 10))
       /\ decimalValue(SubSeq(s, 6, 7)) \in 1..12
       /\ decimalValue(SubSeq(s, 9, 10)) \in
              1..daysInMonth(decimalValue(SubSeq(s, 1, 4)), decimalValue(SubSeq(s, 6, 7)))
       /\ (Len(s) = 10 \/ IsoClock(SubSeq(s, 11, Len(s))))
    THEN [valid |-> TRUE, y |-> decimalValue(SubSeq(s, 1, 4)),
          m |-> decimalValue(SubSeq(s, 6, 7)), d |-> decimalValue(SubSeq(s, 9, 10))]
    ELSE InvalidDate

\* date.toISOString().split("T")[0]
isoDatePart(t) ==
    padStart(decimalString(t.y), 4, "0") \o <<"-">>
        \o padStart(decimalString(t.m), 2, "0") \o <<"-">>
        \o padStart(decimalString(t.d), 2, "0")

\* isNaN(date.getTime()) throws; otherwise the date part is returned
dateChecked(date) ==
    IF ~date.valid THEN Thrown(ErrDateFormat) ELSE Returned(isoDatePart(date))

normalizeDate(dateStr) == dateChecked(parseDate(dateStr))

(***************************************************************************)
(* The Event schema: setters, validators, the pre-save hook, the unique    *)
(* index on slug.  A stored Event is a record of the fields the hook and   *)
(* the queries read.                                                       *)
(***************************************************************************)
\* trim: true
titleSetter(v) == trim(v)
\* lowercase: true, trim: true
slugSetter(v) == trim(toLowerCase(v))

ErrTitleRequired == "Title is required"
ErrDateRequired == "Date is required"
ErrTimeRequired == "Time is required"
ErrTagsEmpty == "There must be at least one tag"
ErrDuplicateSlug == "E11000 duplicate key error"
ErrTitleLength == "Title must be less than 100 characters"
TitleMaxLength == 100

\* the schema validators of the modelled fields; "" when the document is valid
validateEvent(doc) ==
    IF doc.title = <<>> THEN ErrTitleRequired
    ELSE IF Len(doc.title) > TitleMaxLength THEN ErrTitleLength
    ELSE IF doc.date = <<>> THEN ErrDateRequired
    ELSE IF doc.time = <<>> THEN ErrTimeRequired
    ELSE IF doc.tags = {} THEN ErrTagsEmpty
    ELSE ""

HookOk(doc) == [ok |-> TRUE, doc |-> doc, err |-> ""]
HookFail(doc, msg) == [ok |-> FALSE, doc |-> doc, err |-> msg]

\* if (event.isModified("title") || event.isNew) event.slug = generateSlug(event.title)
slugStep(doc, isNew, mod) ==
    IF "title" \in mod \/ isNew
    THEN [doc EXCEPT !.slug = slugSetter(generateSlug(doc.title))]
    ELSE doc

\* event.date = normalizeDate(event.date), r what normalizeDate returned or threw
dateAssigned(doc, r) ==
    IF r.ok THEN HookOk([doc EXCEPT !.date = r.val]) ELSE HookFail(doc, r.err)
\* if (event.isModified("date")) ...
dateStep(h, mod) ==
    IF ~h.ok \/ "date" \notin mod THEN h ELSE dateAssigned(h.doc, normalizeDate(h.doc.date))

\* event.time = normalizeTime(event.time), r what normalizeTime returned or threw
timeAssigned(doc, r) ==
    IF r.ok THEN HookOk([doc EXCEPT !.time = r.val]) ELSE HookFail(doc, r.err)
\* if (event.isModified("time")) ...
timeStep(h, mod) ==
    IF ~h.ok \/ "time" \notin mod THEN h ELSE timeAssigned(h.doc, normalizeTime(h.doc.time))

\* the pre-save hook that keeps the slug the caller assigned
EventPreSaveKeepSlug(doc, isNew, mod) == timeStep(dateStep(HookOk(doc), mod), mod)

\* EventSchema.pre("save"): the document handed to next(), or the error thrown
EventPreSave(doc, isNew, mod) ==
    timeStep(dateStep(HookOk(slugStep(doc, isNew, mod)), mod), mod)

\* EventSchema.index({ slug: 1 }, { unique: true })
SlugTaken(store, doc) == \E e \in store : e.id # doc.id /\ e.slug = doc.slug

\* the write after the hook, under the unique index
writeEvent(store, id, h) ==
    IF ~h.ok THEN [ok |-> FALSE, store |-> store, err |-> h.err]
    ELSE IF SlugTaken(store, h.doc)
         THEN [ok |-> FALSE, store |-> store, err |-> ErrDuplicateSlug]
         ELSE [ok |-> TRUE, err |-> "", store |-> { e \in store : e.id # id } \cup {h.doc}]

\* document.save(): validation, the pre-save hook, then the write.  A failure at
\* any stage leaves the store as it was.
saveEvent(store, doc, isNew, mod) ==
    IF validateEvent(doc) # ""
    THEN [ok |-> FALSE, store |-> store, err |-> validateEvent(doc)]
    ELSE writeEvent(store, doc.id, EventPreSave(doc, isNew, mod))

(***************************************************************************)
(* The Booking schema: the email setters and validator, and the pre-save   *)
(* hook that looks the referenced Event up.                                *)
(***************************************************************************)
\* trim: true, lowercase: true
emailSetter(v) == toLowerCase(trim(v))

LocalChar(c) == IsLower(c) \/ IsUpper(c) \/ IsDigit(c) \/ c \in {".", "_", "%", "+", "-"}
DomainChar(c) == IsLower(c) \/ IsUpper(c) \/ IsDigit(c) \/ c \in {".", "-"}
\* /^[a-zA-Z0-9._%+-]+@[a-zA-Z0-9.-]+\.[a-zA-Z]{2,}$/.test(email)
emailValid(s) ==
    \E at \in 2..Len(s) : \E dot \in (at + 2)..(Len(s) - 2) :
        /\ s[at] = "@"
        /\ \A i \in 1..(at - 1) : LocalChar(s[i])
        /\ \A i \in (at + 1)..(dot - 1) : DomainChar(s[i])
        /\ s[dot] = "."
        /\ \A i \in (dot + 1)..Len(s) : IsLower(s[i]) \/ IsUpper(s[i])

NoErr == [name |-> "", message |-> "", id |-> 0]
\* an Error whose name is set to "ValidationError"; id is the ${...} of its message
ValidationErr(msg, id) == [name |-> "ValidationError", message |-> msg, id |-> id]

ErrEmailRequired == "Email is required"
ErrEmailInvalid == "Please present a valid email address"
ErrEventMissing == "Event with ID ${booking.eventId} does not exist"
ErrEventLookup == "Invalid event ID format or database error"

validateBooking(doc) ==
    IF doc.email = <<>> THEN ValidationErr(ErrEmailRequired, 0)
    ELSE IF ~emailValid(doc.email) THEN ValidationErr(ErrEmailInvalid, 0)
    ELSE NoErr

\* Event.findById(id).select("_id")
findById(store, id) == { e.id : e \in { x \in store : x.id = id } }

\* the pre-save hook that lets every eventId through
BookingPreSaveNoCheck(store, booking, mod, lookupThrows) == NoErr

\* BookingSchema.pre("save"): the error handed to next(), NoErr for next()
BookingPreSave(store, booking, mod, lookupThrows) ==
    IF "eventId" \in mod
    THEN IF lookupThrows THEN ValidationErr(ErrEventLookup, 0)
         ELSE IF findById(store, booking.eventId) = {}
              THEN ValidationErr(ErrEventMissing, booking.eventId)
              ELSE NoErr
    ELSE NoErr

(***************************************************************************)
(* Queries.  A thrown value is a record; an Error carries its message as a *)
(* sequence of words.                                                      *)
(***************************************************************************)
NoThrow == [throws |-> FALSE, isError |-> FALSE, message |-> <<>>]
ThrowError(msg) == [throws |-> TRUE, isError |-> TRUE, message |-> msg]
ThrowValue == [throws |-> TRUE, isError |-> FALSE, message |-> <<>>]
MsgUri == <<"Please", "define", "the", "MONGODB_URI", "environment", "variable">>
MsgRefused == <<"connect", "ECONNREFUSED">>
MsgQuery == <<"query", "failed">>
\* e.message.includes(word)
includes(msg, word) == \E i \in 1..Len(msg) : msg[i] = word

\* Event.findOne({ slug }): the stored Event of that slug, at most one under the
\* unique index; the empty set stands for null
findOne(store, slug) ==
    LET hits == { e \in store : e.slug = slug }
    IN  IF hits = {} THEN {} ELSE {CHOOSE e \in hits : TRUE}

Response(status, message, event, error) ==
    [status |-> status, message |-> message, event |-> event, error |-> error]

\* !slug || typeof slug !== "string" || slug.trim() === ""
slugRejected(slug) == ~slug.defined \/ slug.str = <<>> \/ trim(slug.str) = <<>>

NoResponse == Response(0, "", {}, <<>>)

\* the try block of GET with the raw slug looked up
getTryRawSlug(store, slug, conn, findThrows) ==
    IF conn.throws THEN [threw |-> TRUE, e |-> conn, value |-> NoResponse]
    ELSE IF slugRejected(slug)
    THEN [threw |-> FALSE, e |-> NoThrow,
          value |-> Response(400, "Invalid or missing slug parameter", {}, <<>>)]
    ELSE IF findThrows
    THEN [threw |-> TRUE, e |-> ThrowError(MsgQuery), value |-> NoResponse]
    ELSE LET event == findOne(store, slug.str)
         IN  [threw |-> FALSE, e |-> NoThrow,
              value |-> IF event = {}
                        THEN Response(404, "Event not found", {}, <<>>)
                        ELSE Response(200, "Event fetched successfully", event, <<>>)]

\* the try block of GET: a response, or the value thrown
getTry(store, slug, conn, findThrows) ==
    IF conn.throws THEN [threw |-> TRUE, e |-> conn, value |-> NoResponse]
    ELSE IF slugRejected(slug)
    THEN [threw |-> FALSE, e |-> NoThrow,
          value |-> Response(400, "Invalid or missing slug parameter", {}, <<>>)]
    ELSE IF findThrows
    THEN [threw |-> TRUE, e |-> ThrowError(MsgQuery), value |-> NoResponse]
    ELSE LET sanitizedSlug == toLowerCase(trim(slug.str))
             event == findOne(store, sanitizedSlug)
         IN  [threw |-> FALSE, e |-> NoThrow,
              value |-> IF event = {}
                        THEN Response(404, "Event not found", {}, <<>>)
                        ELSE Response(200, "Event fetched successfully", event, <<>>)]

\* the catch block of GET
getCatch(e) ==
    IF e.isError
    THEN IF includes(e.message, "MONGODB_URI")
         THEN Response(500, "Database connection error", {}, <<>>)
         ELSE Response(500, "Event fetching failed", {}, e.message)
    ELSE Response(500, "An unexpected error occurred", {}, <<>>)

\* GET /api/events/[slug]
GET(store, slug, conn, findThrows) ==
    LET t == getTry(store, slug, conn, findThrows)
    IN  IF t.threw THEN getCatch(t.e) ELSE t.value

\* the filter without its _id: { $ne } clause
similarFindWithSelf(store, src) == { e \in store : e.tags \cap src.tags # {} }

\* Event.find({ _id: { $ne: event._id }, tags: { $in: event.tags } })
similarFind(store, src) ==
    { e \in store : e.id # src.id /\ e.tags \cap src.tags # {} }

\* the try block of getSimilarEventsBySlug
similarTry(store, slug, conn, findOneThrows, findThrows) ==
    IF conn.throws THEN [threw |-> TRUE, value |-> {}]
    ELSE IF findOneThrows THEN [threw |-> TRUE, value |-> {}]
    ELSE LET event == findOne(store, slug)
         IN  \* event._id of null throws a TypeError
             IF event = {} THEN [threw |-> TRUE, value |-> {}]
             ELSE IF findThrows THEN [threw |-> TRUE, value |-> {}]
             ELSE [threw |-> FALSE,
                   value |-> similarFind(store, CHOOSE e \in event : TRUE)]

\* getSimilarEventsBySlug without its catch
similarNoCatch(store, slug, conn, findOneThrows, findThrows) ==
    similarTry(store, slug, conn, findOneThrows, findThrows)

\* try { ... } catch { return []; }
getSimilarEventsBySlug(store, slug, conn, findOneThrows, findThrows) ==
    LET t == similarTry(store, slug, conn, findOneThrows, findThrows)
    IN  IF t.threw THEN [threw |-> FALSE, value |-> {}] ELSE t

(***************************************************************************)
(* State.                                                                  *)
(*   sTitle, sSlug, sAgain, sPc : generateSlug applied to a title, twice   *)
(*   tIn, tOut, tPc             : normalizeTime applied to a time string   *)
(*   events, nextId             : the Event collection and its next _id    *)
(*   lastWrite                  : the outcome of the last Event save       *)
(*   bookings, nextBid          : the Booking collection and its next _id  *)
(*   bk                         : the Booking save in flight               *)
(*   last                       : the last query and what it answered      *)
(***************************************************************************)
VARIABLES sTitle, sSlug, sAgain, sPc, tIn, tOut, tPc, events, nextId, lastWrite,
          bookings, nextBid, bk, last

slugVars == <<sTitle, sSlug, sAgain, sPc>>
timeVars == <<tIn, tOut, tPc>>
writeVars == <<events, nextId, lastWrite>>
bookVars == <<bookings, nextBid, bk>>
vars == <<sTitle, sSlug, sAgain, sPc, tIn, tOut, tPc, events, nextId, lastWrite,
          bookings, nextBid, bk, last>>

Chars(n, c) == [i \in 1..n |-> c]

SlugIdle == sTitle = <<>> /\ sSlug = <<>> /\ sAgain = <<>> /\ sPc = "off"
NoTimeInput == [lead |-> 0, h |-> <<>>, m |-> <<>>, sp |-> 0, suf |-> <<>>]
TimeIdle == tIn = NoTimeInput /\ tOut = Thrown("") /\ tPc = "off"
NoWrite == [kind |-> "none", ok |-> FALSE, time |-> NoTimeInput, slug |-> <<>>]
WriteIdle == events = {} /\ nextId = 1 /\ lastWrite = NoWrite
NoBookingSave == [pc |-> "idle", doc |-> [id |-> 0, eventId |-> 0, email |-> <<>>],
                  isNew |-> FALSE, mod |-> {}, lookupThrows |-> FALSE,
                  ok |-> FALSE, err |-> NoErr, raced |-> FALSE]
BookIdle == bookings = {} /\ nextBid = 1 /\ bk = NoBookingSave
NoQuery == [op |-> "none", slug |-> Undefined, conn |-> NoThrow, findOneThrows |-> FALSE,
            findThrows |-> FALSE, resp |-> NoResponse,
            sim |-> [threw |-> FALSE, value |-> {}]]
QueryIdle == last = NoQuery

(***************************************************************************)
(* SpecSlug: generateSlug over every title of a small alphabet.            *)
(***************************************************************************)
TitleAlphabet == {"a", "B", "1", " ", "-", "!"}
SeqsUpTo(A, n) == UNION { [1..k -> A] : k \in 0..n }
SlugTitles == SeqsUpTo(TitleAlphabet, MaxTitleLen)

SlugInit ==
    /\ sTitle \in SlugTitles
    /\ sSlug = <<>>
    /\ sAgain = <<>>
    /\ sPc = "input"
    /\ TimeIdle /\ WriteIdle /\ BookIdle /\ QueryIdle

\* slug = generateSlug(title)
SlugOnce ==
    /\ sPc = "input"
    /\ sSlug' = generateSlug(sTitle)
    /\ sPc' = "once"
    /\ UNCHANGED <<sTitle, sAgain, timeVars, writeVars, bookVars, last>>

\* generateSlug applied to its own output
SlugTwice ==
    /\ sPc = "once"
    /\ sAgain' = generateSlug(sSlug)
    /\ sPc' = "twice"
    /\ UNCHANGED <<sTitle, sSlug, timeVars, writeVars, bookVars, last>>

SlugNext == SlugOnce \/ SlugTwice

SpecSlug == SlugInit /\ [][SlugNext]_vars

IsCanonicalSlug(s) ==
    /\ \A i \in 1..Len(s) : IsLower(s[i]) \/ IsDigit(s[i]) \/ s[i] = "-"
    /\ s # <<>> => (s[1] # "-" /\ s[Len(s)] # "-")
    /\ \A i \in 1..(Len(s) - 1) : ~(s[i] = "-" /\ s[i + 1] = "-")

\* C4: generateSlug is idempotent and its output is canonical: only characters
\* of [a-z0-9-], no leading or trailing hyphen, no two adjacent hyphens.
C4_SlugIdempotentCanonical ==
    /\ sPc \in {"once", "twice"} => IsCanonicalSlug(sSlug)
    /\ sPc = "twice" => sAgain = sSlug

\* a title with a space-hyphen-space run has been slugged twice
C4_Witness ==
    /\ sPc = "twice"
    /\ sTitle = <<"a", " ", "-", "B">>
    /\ sSlug = <<"a", "-", "b">>

(***************************************************************************)
(* SpecTime: normalizeTime over time strings built from an hour field, a   *)
(* minutes field, white space and a suffix.                                *)
(***************************************************************************)
HourFields == { <<DigitOf(a)>> : a \in 0..9 }
                 \cup { <<DigitOf(a), DigitOf(b)>> : a \in 0..9, b \in 0..9 }
MinuteFields == { <<"0","0">>, <<"0","5">>, <<"3","0">>, <<"5","9">>,
                  <<"6","0">>, <<"7","5">>, <<"5">> }
SuffixFields == { <<>>, <<"A","M">>, <<"P","M">>, <<"a","m">>, <<"p","M">>, <<"X","M">> }

TimeString(in) ==
    Chars(in.lead, " ") \o in.h \o <<":">> \o in.m \o Chars(in.sp, " ") \o in.suf

TimeInit ==
    /\ tIn \in [lead : 0..MaxSpaces, h : HourFields, m : MinuteFields,
                sp : 0..MaxSpaces, suf : SuffixFields]
    /\ tOut = Thrown("")
    /\ tPc = "input"
    /\ SlugIdle /\ WriteIdle /\ BookIdle /\ QueryIdle

\* out = normalizeTime(timeStr), or the error it throws
TimeNormalize ==
    /\ tPc = "input"
    /\ tOut' = normalizeTime(TimeString(tIn))
    /\ tPc' = "done"
    /\ UNCHANGED <<tIn, slugVars, writeVars, bookVars, last>>

TimeNext == TimeNormalize

SpecTime == TimeInit /\ [][TimeNext]_vars

\* what the time string says, read off its fields
InShape(in) == Len(in.m) = 2 /\ in.suf \in SuffixFields \ {<<"X","M">>}
Period(in) == toUpperCase(in.suf)
Hour24(in) ==
    LET h == decimalValue(in.h)
    IN  IF Period(in) = <<"P","M">> THEN (IF h = 12 THEN 12 ELSE h + 12)
        ELSE IF Period(in) = <<"A","M">> THEN (IF h = 12 THEN 0 ELSE h)
        ELSE h
InRange(in) == Hour24(in) \in 0..23 /\ decimalValue(in.m) \in 0..59
Canonical24(in) == padStart(decimalString(Hour24(in)), 2, "0") \o <<":">> \o in.m

\* C1: for every in-range time string of shape H:MM or HH:MM with an optional
\* AM/PM suffix, normalizeTime returns the zero-padded 24-hour HH:MM value
\* (PM adds 12 unless the hour is 12, AM turns 12 into 0).
C1_NormalizeTime24h ==
    (tPc = "done" /\ InShape(tIn) /\ InRange(tIn))
        => (tOut.ok /\ tOut.val = Canonical24(tIn))

(***************************************************************************)
(* Spec: Event documents created and updated through save().               *)
(***************************************************************************)
TitleHello == <<"H","e","l","l","o",","," ","W","o","r","l","d","!"," ","2","0","2","4">>
TitleHelloPlain == <<" ","h","e","l","l","o"," ","w","o","r","l","d"," ","2","0","2","4">>
TitleGoConf == <<"G","o"," ","-"," ","C","o","n","f">>
EventTitles == {TitleHello, TitleHelloPlain, TitleGoConf}
SlugHello == <<"h","e","l","l","o","-","w","o","r","l","d","-","2","0","2","4">>
SlugCustom == <<"C","u","s","t","o","m">>
SuppliedSlugs == {SlugCustom}

DateIso == <<"2","0","2","4","-","0","3","-","0","5">>
DateIsoClock == <<"2","0","2","4","-","0","3","-","0","5","T","1","0",":","0","0",":","0","0","Z">>
DateGarbage == <<"n","o","t","-","a","-","d","a","t","e">>
DateInputs == {DateIso, DateIsoClock, DateGarbage}

T(h, m, suf) == [lead |-> 0, h |-> h, m |-> m, sp |-> (IF suf = <<>> THEN 0 ELSE 1),
                 suf |-> suf]
Time2359 == T(<<"2","3">>, <<"5","9">>, <<>>)
Time2375 == T(<<"2","3">>, <<"7","5">>, <<>>)
Time2500 == T(<<"2","5">>, <<"0","0">>, <<>>)
Time9c5 == T(<<"9">>, <<"5">>, <<>>)
Time1300PM == T(<<"1","3">>, <<"0","0">>, <<"P","M">>)
TimeInputs == {Time2359, Time2375, Time2500, Time9c5, Time1300PM}

TagInputs == { {"ai"}, {} }

AllPaths == {"title", "slug", "date", "time", "tags"}

Init ==
    /\ events = {}
    /\ nextId = 1
    /\ lastWrite = NoWrite
    /\ SlugIdle /\ TimeIdle /\ BookIdle /\ QueryIdle

\* new Event({ title, slug, date, time, tags }).save()
SaveNewEvent(title, slug, date, time, tags) ==
    LET doc == [id |-> nextId, title |-> titleSetter(title),
                slug |-> slugSetter(slug), date |-> date,
                time |-> TimeString(time), tags |-> tags]
    IN  \E r \in {saveEvent(events, doc, TRUE, AllPaths)} :
            /\ events' = r.store
            /\ nextId' = IF r.ok THEN nextId + 1 ELSE nextId
            /\ lastWrite' = [kind |-> "create", ok |-> r.ok, time |-> time, slug |-> slug]

\* the stored Event e loaded, its fields assigned, then save(); the paths whose
\* value changed are the modified ones (time = NoTimeInput: time not assigned)
SaveExistingEvent(e, title, slug, date, time) ==
    LET timeStr == IF time = NoTimeInput THEN e.time ELSE TimeString(time)
        doc == [id |-> e.id, title |-> titleSetter(title),
                slug |-> slugSetter(slug), date |-> date,
                time |-> timeStr, tags |-> e.tags]
        mod == { f \in AllPaths : doc[f] # e[f] }
    IN  /\ mod # {}
        /\ \E r \in {saveEvent(events, doc, FALSE, mod)} :
            /\ events' = r.store
            /\ lastWrite' = [kind |-> "update", ok |-> r.ok,
                             time |-> (IF "time" \in mod THEN time ELSE NoTimeInput),
                             slug |-> (IF "slug" \in mod THEN slug ELSE <<>>)]

CreateEvent ==
    /\ nextId <= MaxEvents
    /\ \E title \in EventTitles, slug \in SuppliedSlugs \cup {<<>>}, date \in DateInputs,
          time \in TimeInputs, tags \in TagInputs :
          SaveNewEvent(title, slug, date, time, tags)
    /\ UNCHANGED <<slugVars, timeVars, bookVars, last>>

UpdateEvent ==
    /\ \E e \in events :
       \E title \in EventTitles \cup {e.title}, slug \in SuppliedSlugs \cup {e.slug},
          date \in {DateGarbage, e.date}, time \in TimeInputs \cup {NoTimeInput} :
          SaveExistingEvent(e, title, slug, date, time)
    /\ UNCHANGED <<nextId, slugVars, timeVars, bookVars, last>>

Next == CreateEvent \/ UpdateEvent

Spec == Init /\ [][Next]_vars

(***************************************************************************)
(* SpecTitles: the same writes with one valid date and two times, which    *)
(* leaves room for every rename and for slug collisions.                   *)
(***************************************************************************)
CreateTitled ==
    /\ nextId <= MaxEvents
    /\ \E title \in EventTitles, slug \in SuppliedSlugs \cup {<<>>},
          time \in {Time2359, Time9c5} :
          SaveNewEvent(title, slug, DateIso, time, {"ai"})
    /\ UNCHANGED <<slugVars, timeVars, bookVars, last>>

Retitle ==
    /\ \E e \in events :
       \E title \in EventTitles \cup {e.title}, slug \in SuppliedSlugs \cup {e.slug},
          time \in {Time2359, Time9c5, NoTimeInput} :
          SaveExistingEvent(e, title, slug, e.date, time)
    /\ UNCHANGED <<nextId, slugVars, timeVars, bookVars, last>>

TitlesNext == CreateTitled \/ Retitle

SpecTitles == Init /\ [][TitlesNext]_vars

\* C2: an Event write whose new-or-changed time does not have the
\* H:MM/HH:MM[ AM|PM] shape, or is out of range after AM/PM conversion, fails
\* with an error and leaves the stored set of events as it was.
C2_BadTimeWriteRejected ==
    [][(lastWrite'.time # NoTimeInput
          /\ ~(InShape(lastWrite'.time) /\ InRange(lastWrite'.time)))
          => (~lastWrite'.ok /\ events' = events)]_vars

IsCanonicalDate(s) ==
    /\ Len(s) = 10
    /\ s[5] = "-" /\ s[8] = "-"
    /\ \A i \in {1, 2, 3, 4, 6, 7, 9, 10} : IsDigit(s[i])
IsCanonicalTime(s) ==
    /\ Len(s) = 5
    /\ s[3] = ":"
    /\ \A i \in {1, 2, 4, 5} : IsDigit(s[i])
    /\ decimalValue(SubSeq(s, 1, 2)) \in 0..23
    /\ decimalValue(SubSeq(s, 4, 5)) \in 0..59

\* C3: every stored Event has its date in canonical YYYY-MM-DD form and its
\* time in canonical 24-hour HH:MM form.
C3_StoredDateTimeCanonical ==
    \A e \in events : IsCanonicalDate(e.date) /\ IsCanonicalTime(e.time)

\* C5: after every successful Event write that creates the record or changes
\* its title, the stored slug equals generateSlug(current title), whatever slug
\* the caller supplied.
C5_SlugDerivedFromTitle ==
    [][\A e \in events' :
          ((\A o \in events : o.id # e.id) \/ (\E o \in events : o.id = e.id /\ o.title # e.title))
              => e.slug = generateSlug(e.title)]_vars

\* "Hello, World! 2024" was just saved with a caller-supplied slug and is stored
\* under hello-world-2024
C5_Witness ==
    /\ lastWrite.ok
    /\ lastWrite.kind = "create"
    /\ lastWrite.slug = SlugCustom
    /\ \E e \in events :
          e.id = nextId - 1 /\ e.title = TitleHello /\ e.slug = SlugHello

(***************************************************************************)
(* Stores for the Booking and query specifications: what saving n Events   *)
(* with distinct titles leaves in the collection.                          *)
(***************************************************************************)
SeedTitle(i) == <<"E", "v", DigitOf(i)>>
SeedTagSets == { {"ai"}, {"ai", "web"}, {"db"} }

RECURSIVE seedStore(_, _)
seedStore(n, tagsOf) ==
    IF n = 0 THEN {}
    ELSE saveEvent(seedStore(n - 1, tagsOf),
                   [id |-> n, title |-> titleSetter(SeedTitle(n)), slug |-> <<>>,
                    date |-> DateIso, time |-> TimeString(Time2359), tags |-> tagsOf[n]],
                   TRUE, AllPaths).store

SeedStores ==
    UNION { { seedStore(n, tagsOf) : tagsOf \in [1..n -> SeedTagSets] } : n \in 0..MaxEvents }

(***************************************************************************)
(* SpecBooking: one Booking save at a time, in two storage steps, while    *)
(* Events are deleted.                                                     *)
(***************************************************************************)
EmailGood == <<"A", "@", "b", ".", "c", "o">>
EmailGoodStored == <<"a", "@", "b", ".", "c", "o">>
EmailBad == <<"a", "@", "b">>
EmailInputs == {EmailGood, EmailBad}
EventIds == 1..(MaxEvents + 1)

EventExists(id) == \E e \in events : e.id = id

BookingInit ==
    /\ events \in { seedStore(n, [i \in 1..n |-> {"ai"}]) : n \in 0..MaxEvents }
    /\ nextId = Cardinality(events) + 1
    /\ lastWrite = NoWrite
    /\ BookIdle
    /\ SlugIdle /\ TimeIdle /\ QueryIdle

\* Event.deleteOne({ _id }): no hook of either schema reacts to it
DeleteEvent ==
    /\ \E e \in events : events' = events \ {e}
    /\ UNCHANGED <<nextId, lastWrite, bookVars, slugVars, timeVars, last>>

\* save() up to the end of the pre-save hook: field validation, then the lookup
bookingCheck(doc, isNew, mod, lookupThrows) ==
    LET v   == validateBooking(doc)
        h   == BookingPreSave(events, doc, mod, lookupThrows)
        err == IF v # NoErr THEN v ELSE h
    IN  [pc |-> IF err = NoErr THEN "checked" ELSE "done", doc |-> doc, isNew |-> isNew,
         mod |-> mod, lookupThrows |-> lookupThrows, ok |-> FALSE, err |-> err,
         raced |-> FALSE]

\* new Booking({ eventId, email }).save(), up to the insert
BookingSaveNew ==
    /\ bk.pc \in {"idle", "done"}
    /\ nextBid <= MaxBookings
    /\ \E eventId \in EventIds, email \in EmailInputs, lookupThrows \in BOOLEAN :
          bk' = bookingCheck([id |-> nextBid, eventId |-> eventId,
                              email |-> emailSetter(email)],
                             TRUE, {"eventId", "email"}, lookupThrows)
    /\ UNCHANGED <<bookings, nextBid, writeVars, slugVars, timeVars, last>>

\* a stored Booking loaded, eventId and email assigned, then save(), up to the write
BookingSaveExisting ==
    /\ bk.pc \in {"idle", "done"}
    /\ \E b \in bookings :
       \E eventId \in EventIds, email \in EmailInputs \cup {b.email},
          lookupThrows \in BOOLEAN :
          LET doc == [id |-> b.id, eventId |-> eventId, email |-> emailSetter(email)]
              mod == { f \in {"eventId", "email"} : doc[f] # b[f] }
          IN  /\ mod # {}
              /\ bk' = bookingCheck(doc, FALSE, mod, lookupThrows)
    /\ UNCHANGED <<bookings, nextBid, writeVars, slugVars, timeVars, last>>

\* the write that re-reads the Event and gives up when it is gone
BookingInsertGuarded ==
    /\ bk.pc = "checked"
    /\ IF EventExists(bk.doc.eventId)
       THEN /\ bookings' = { b \in bookings : b.id # bk.doc.id } \cup {bk.doc}
            /\ nextBid' = IF bk.isNew THEN nextBid + 1 ELSE nextBid
            /\ bk' = [bk EXCEPT !.pc = "done", !.ok = TRUE]
       ELSE /\ bk' = [bk EXCEPT !.pc = "done", !.ok = FALSE,
                                !.err = ValidationErr(ErrEventMissing, bk.doc.eventId)]
            /\ UNCHANGED <<bookings, nextBid>>
    /\ UNCHANGED <<writeVars, slugVars, timeVars, last>>

\* next(): the hook is over and the document is written
BookingInsert ==
    /\ bk.pc = "checked"
    /\ bookings' = { b \in bookings : b.id # bk.doc.id } \cup {bk.doc}
    /\ nextBid' = IF bk.isNew THEN nextBid + 1 ELSE nextBid
    /\ bk' = [bk EXCEPT !.pc = "done", !.ok = TRUE,
                        !.raced = ("eventId" \in bk.mod /\ ~EventExists(bk.doc.eventId))]
    /\ UNCHANGED <<writeVars, slugVars, timeVars, last>>

BookingNext == DeleteEvent \/ BookingSaveNew \/ BookingSaveExisting \/ BookingInsert

SpecBooking == BookingInit /\ [][BookingNext]_vars

CheckStep == bk.pc \in {"idle", "done"} /\ bk' # bk
InsertStep == bk.pc = "checked" /\ bk'.pc = "done"

\* C6: a Booking write that sets or changes eventId to an identifier resolving
\* to no Event when the check runs is rejected with a ValidationError naming
\* that identifier, and nothing is persisted; a write whose eventId resolves to
\* an Event and whose email is valid passes the check and is persisted.
C6_BookingReferenceChecked ==
    [][/\ (CheckStep /\ "eventId" \in bk'.mod /\ ~bk'.lookupThrows
             /\ ~EventExists(bk'.doc.eventId))
          => /\ bk'.pc = "done" /\ ~bk'.ok
             /\ bk'.err.name = "ValidationError"
             /\ bookings' = bookings
             /\ (bk'.doc.email = EmailGoodStored
                   => bk'.err = ValidationErr(ErrEventMissing, bk'.doc.eventId))
       /\ (CheckStep /\ ~bk'.lookupThrows /\ EventExists(bk'.doc.eventId)
             /\ bk'.doc.email = EmailGoodStored)
          => bk'.pc = "checked"
       /\ InsertStep => (bk'.ok /\ bk'.doc \in bookings')]_vars

\* one write was rejected for a missing Event; nothing of it is stored
C6_Witness ==
    /\ bk.pc = "done" /\ ~bk.ok
    /\ bk.err = ValidationErr(ErrEventMissing, bk.doc.eventId)
    /\ ~EventExists(bk.doc.eventId)
    /\ \E b \in bookings : b.email = EmailGoodStored /\ EventExists(b.eventId)

\* C10: the existence check and the insert are separate steps: an insert that
\* follows a successful check persists the Booking although the Event was
\* deleted in between, which leaves a Booking referencing no Event.
C10_InsertNotGuarded ==
    [][(InsertStep /\ ~EventExists(bk.doc.eventId))
          => /\ bk'.ok /\ bk'.doc \in bookings'
             /\ \A e \in events' : e.id # bk'.doc.eventId]_vars

\* a Booking whose Event was deleted between its check and its insert is stored
C10_Witness ==
    /\ bk.pc = "done" /\ bk.ok /\ bk.raced
    /\ bk.doc \in bookings
    /\ ~EventExists(bk.doc.eventId)

(***************************************************************************)
(* SpecQuery: the route handler and the similar-events query over a store. *)
(***************************************************************************)
SlugParams == { Undefined, Str(<<>>), Str(<<" ", " ">>), Str(<<" ", "E", "V", "1", " ">>),
                Str(<<"e", "v", "1">>), Str(<<"e", "v", "2">>), Str(<<"n", "o">>) }
ConnOutcomes == { NoThrow, ThrowError(MsgUri), ThrowError(MsgRefused), ThrowValue }
SimilarSlugs == { <<"e", "v", "1">>, <<"e", "v", "2">>, <<"n", "o">> }

QueryInit ==
    /\ events \in SeedStores
    /\ nextId = Cardinality(events) + 1
    /\ lastWrite = NoWrite
    /\ QueryIdle
    /\ SlugIdle /\ TimeIdle /\ BookIdle

\* a request GET /api/events/[slug] and its response
GetEvent ==
    /\ \E slug \in SlugParams, conn \in ConnOutcomes, findThrows \in BOOLEAN :
          last' = [op |-> "get", slug |-> slug, conn |-> conn, findOneThrows |-> findThrows,
                   findThrows |-> FALSE, resp |-> GET(events, slug, conn, findThrows),
                   sim |-> [threw |-> FALSE, value |-> {}]]
    /\ UNCHANGED <<writeVars, bookVars, slugVars, timeVars>>

\* a call of getSimilarEventsBySlug(slug) and what it returns or throws
GetSimilar ==
    /\ \E slug \in SimilarSlugs, conn \in ConnOutcomes, findOneThrows \in BOOLEAN,
          findThrows \in BOOLEAN :
          last' = [op |-> "similar", slug |-> Str(slug), conn |-> conn,
                   findOneThrows |-> findOneThrows, findThrows |-> findThrows,
                   resp |-> NoResponse,
                   sim |-> getSimilarEventsBySlug(events, slug, conn, findOneThrows,
                                                  findThrows)]
    /\ UNCHANGED <<writeVars, bookVars, slugVars, timeVars>>

QueryNext == GetEvent \/ GetSimilar

SpecQuery == QueryInit /\ [][QueryNext]_vars

StorageFailed == last.conn.throws \/ last.findOneThrows \/ last.findThrows
Sources == { e \in events : e.slug = last.slug.str }

\* C7: getSimilarEventsBySlug never propagates an error: when the slug matches
\* no Event, or the connection or a query fails, it returns an empty sequence.
C7_SimilarNeverThrows ==
    last.op = "similar" =>
        /\ ~last.sim.threw
        /\ (Sources = {} \/ StorageFailed) => last.sim.value = {}

\* the slug matched no Event while storage worked, and the answer was empty
C7_Witness ==
    /\ last.op = "similar" /\ ~StorageFailed
    /\ Sources = {} /\ events # {}
    /\ ~last.sim.threw /\ last.sim.value = {}

\* C8: when the slug resolves to a stored Event and storage works, the result
\* is exactly the other stored Events sharing a tag with it, never the source.
C8_SimilarExact ==
    (last.op = "similar" /\ ~StorageFailed) =>
        \A src \in Sources :
            /\ last.sim.value = { e \in events : e # src /\ e.tags \cap src.tags # {} }
            /\ src \notin last.sim.value

\* a source with a tag-sharing neighbour was asked for
C8_Witness ==
    /\ last.op = "similar" /\ ~StorageFailed
    /\ Sources # {}
    /\ last.sim.value # {}

Blank(slug) == ~slug.defined \/ \A i \in 1..Len(slug.str) : slug.str[i] = " "
Wanted == { e \in events : e.slug = toLowerCase(trim(last.slug.str)) }
LookupAnswer ==
    /\ (last.conn.throws \/ last.findOneThrows) => last.resp.status = 500
    /\ (~last.conn.throws /\ ~last.findOneThrows) =>
          /\ Wanted # {} => (last.resp.status = 200 /\ last.resp.event = Wanted)
          /\ Wanted = {} => last.resp.status = 404

\* C9 as stated: 400 whenever the slug is missing or blank; for a non-blank slug
\* 200 with the Event of the trimmed, lowercased slug, 404 when none is stored,
\* 500 when the connection or the lookup fails.
C9_GetStatusAsStated ==
    last.op = "get" =>
        /\ Blank(last.slug) => last.resp.status = 400
        /\ ~Blank(last.slug) => LookupAnswer

\* C9 amended: a connection failure answers 500 whatever the slug; with the
\* connection up, a missing or blank slug answers 400 and a non-blank slug
\* answers 200, 404 or 500 as stated.
C9_GetStatus ==
    last.op = "get" =>
        /\ last.conn.throws => last.resp.status = 500
        /\ (~last.conn.throws /\ Blank(last.slug)) => last.resp.status = 400
        /\ ~Blank(last.slug) => LookupAnswer

\* a padded upper-case slug was answered with the Event stored under ev1
C9_Witness ==
    /\ last.op = "get"
    /\ last.slug = Str(<<" ", "E", "V", "1", " ">>)
    /\ last.resp.status = 200
    /\ \E e \in last.resp.event : e.slug = <<"e", "v", "1">>
====
